---- MODULE Spec2Model ----
(***************************************************************************)
(* The voxel worker of 0mhx-coding-adventure: the dense voxel grid, the     *)
(* surface mesher (generateVoxelGeometry), the scene synchroniser           *)
(* (updateVoxelMesh), the script runner (runPythonCode) with its row        *)
(* yields, the worker's message handler, and the Canvas component that      *)
(* posts the messages and guards runs with isExecutingRef.                  *)
(*                                                                         *)
(* Conventions.                                                            *)
(*  - A nullable JavaScript value is a sequence of length 0 or 1: Null is   *)
(*    <<>> and a present value v is <<v>>.  A stored colour string s is     *)
(*    <<s>>, so the empty string <<"">> differs from null.                  *)
(*  - Arrays and meshes are heap objects; a reference is an index into      *)
(*    heap / meshes.  runPythonCode keeps the reference it destructured.    *)
(*  - Vertex positions are kept in doubled units (2 * coordinate), because  *)
(*    centerOffset = gridSize / 2 - 0.5 is a half-integer for even sizes.   *)
(***************************************************************************)
EXTENDS Integers, Sequences, FiniteSets, TLC

VARIABLES
    gridSize,        \* state.gridSize
    voxelData,       \* state.voxelData: Null or <<reference into heap>>
    heap,            \* the voxel arrays ever allocated, by reference
    interpreter,     \* state.interpreter is non-null
    scene,           \* state.scene: Null or <<set of mesh references it holds>>
    voxelMesh,       \* state.voxelMesh: Null or <<reference into meshes>>
    meshes,          \* the THREE.Mesh objects ever created, by reference
    geometry,        \* the value of the last generateVoxelGeometry call, or Null
    runs,            \* every runPythonCode invocation, in order of start
    inbox,           \* messages posted to the worker, not yet handled
    outbox,          \* messages posted by the worker, not yet delivered
    warnings,        \* the 'warning' messages the worker posted
    isExecutingRef,  \* Canvas: isExecutingRef.current
    posts,           \* number of messages the page has posted since the mount
    call,            \* the last direct call of a voxel-utils function: what it was
                     \* and how it ended
    colorSet,        \* what THREE.Color.set does with a string it cannot parse:
                     \* "throws", or "warns" and leaves the colour as it was
    terminated       \* history: terminate() has posted its success at least once

vars == <<gridSize, voxelData, heap, interpreter, scene, voxelMesh, meshes,
          geometry, runs, inbox, outbox, warnings, isExecutingRef, posts, call,
          colorSet, terminated>>

(***************************************************************************)
(* Bounds of the model.                                                    *)
(***************************************************************************)
MaxGrid == 2
MaxPosts == 3
MaxMsgs == 2
MaxInbox == 1
MaxGeomGrid == 2
MaxOccupied == 2

Null == <<>>
Some(v) == <<v>>

\* No voxel-utils function has been called directly.
NoCall == [fn |-> "", threw |-> FALSE, discarded |-> FALSE]

(***************************************************************************)
(* The face table.                                                         *)
(***************************************************************************)
\* A face table whose top face lists its corners in the opposite rotation.
VoxelFacesTopReversed ==
    << [dir |-> <<-1, 0, 0>>, corners |-> << <<0, 1, 0>>, <<0, 0, 0>>, <<0, 1, 1>>, <<0, 0, 1>> >>],
       [dir |-> <<1, 0, 0>>,  corners |-> << <<1, 1, 1>>, <<1, 0, 1>>, <<1, 1, 0>>, <<1, 0, 0>> >>],
       [dir |-> <<0, -1, 0>>, corners |-> << <<1, 0, 1>>, <<0, 0, 1>>, <<1, 0, 0>>, <<0, 0, 0>> >>],
       [dir |-> <<0, 1, 0>>,  corners |-> << <<1, 1, 1>>, <<0, 1, 1>>, <<1, 1, 0>>, <<0, 1, 0>> >>],
       [dir |-> <<0, 0, -1>>, corners |-> << <<1, 0, 0>>, <<0, 0, 0>>, <<1, 1, 0>>, <<0, 1, 0>> >>],
       [dir |-> <<0, 0, 1>>,  corners |-> << <<0, 0, 1>>, <<1, 0, 1>>, <<0, 1, 1>>, <<1, 1, 1>> >>] >>

VoxelFaces ==
    << [dir |-> <<-1, 0, 0>>, corners |-> << <<0, 1, 0>>, <<0, 0, 0>>, <<0, 1, 1>>, <<0, 0, 1>> >>],
       [dir |-> <<1, 0, 0>>,  corners |-> << <<1, 1, 1>>, <<1, 0, 1>>, <<1, 1, 0>>, <<1, 0, 0>> >>],
       [dir |-> <<0, -1, 0>>, corners |-> << <<1, 0, 1>>, <<0, 0, 1>>, <<1, 0, 0>>, <<0, 0, 0>> >>],
       [dir |-> <<0, 1, 0>>,  corners |-> << <<0, 1, 1>>, <<1, 1, 1>>, <<0, 1, 0>>, <<1, 1, 0>> >>],
       [dir |-> <<0, 0, -1>>, corners |-> << <<1, 0, 0>>, <<0, 0, 0>>, <<1, 1, 0>>, <<0, 1, 0>> >>],
       [dir |-> <<0, 0, 1>>,  corners |-> << <<0, 0, 1>>, <<1, 0, 1>>, <<0, 1, 1>>, <<1, 1, 1>> >>] >>

Cells(n) == (0 .. n - 1) \X (0 .. n - 1) \X (0 .. n - 1)

\* Array(gridSize).fill(null) three levels deep: every cell null.
EmptyGrid(n) == [c \in Cells(n) |-> Null]

\* JavaScript truthiness of a string | null: null and "" are falsy.
Truthy(v) == IF v = Null THEN FALSE ELSE v[1] # ""

(***************************************************************************)
(* A voxel array as allocated by init: n arrays of n arrays of n cells.     *)
(***************************************************************************)
NewVoxelArray(n) == [n |-> n, cells |-> EmptyGrid(n)]

\* What a read of voxelData[x][y] on a missing row does: TypeError.
Thrown == <<"TypeError", "thrown">>

(***************************************************************************)
(* getVoxelColor(state, x, y, z).  st.voxelData is Null or <<the array>>.   *)
(* The bounds test uses state.gridSize; an index that passes it but lies    *)
(* outside the array itself reads undefined[y] (TypeError) on x or y, and   *)
(* reads undefined (absent) on z.                                           *)
(***************************************************************************)
getVoxelColor(st, x, y, z) ==
    IF \/ st.voxelData = Null
       \/ x < 0 \/ x >= st.gridSize
       \/ y < 0 \/ y >= st.gridSize
       \/ z < 0 \/ z >= st.gridSize
    THEN Null
    ELSE LET arr == st.voxelData[1] IN
         IF x >= arr.n \/ y >= arr.n THEN Thrown
         ELSE IF z >= arr.n THEN Null
         ELSE arr.cells[<<x, y, z>>]

\* The two ways a colour parser can fail on a string.
ColorSetOutcomes == {"throws", "warns"}

\* new THREE.Color(): white.
NewColor == <<1, 1, 1>>

\* The strings the parser accepts.
ColorParses(token) == token \in {"red", "blue", "#00ff00"}

\* tempColor after try { tempColor.set(token) } catch { tempColor.set(0x00ff00) }:
\* the parsed colour; for a token the parser rejects, the default green if
\* set threw, and the colour the reused object held if set returned.
\* Components are 0 or 1.
ColorOf(tempColor, token) ==
    CASE token = "red" -> <<1, 0, 0>>
      [] token = "blue" -> <<0, 0, 1>>
      [] token = "#00ff00" -> <<0, 1, 0>>
      [] OTHER -> IF colorSet = "throws" THEN <<0, 1, 0>> ELSE tempColor

EmptyBuffers == [positions |-> <<>>, normals |-> <<>>, colors |-> <<>>, indices |-> <<>>]

\* A face whose normal is pushed once, outside the loop over its corners.
PushFaceOneNormal(buf, n, x, y, z, f, rgb) ==
    LET face == VoxelFaces[f]
        ndx == Len(buf.positions) \div 3
        pos(k) == << 2 * (face.corners[k][1] + x) - (n - 1),
                     2 * (face.corners[k][2] + y) - (n - 1),
                     2 * (face.corners[k][3] + z) - (n - 1) >>
    IN  [positions |-> buf.positions \o (pos(1) \o pos(2) \o pos(3) \o pos(4)),
         normals   |-> buf.normals \o face.dir,
         colors    |-> buf.colors \o (rgb \o rgb \o rgb \o rgb),
         indices   |-> buf.indices \o <<ndx, ndx + 1, ndx + 2, ndx + 2, ndx + 1, ndx + 3>>]

\* The four corners of one face: positions (doubled units), normals and
\* colours, then the six indices of its two triangles.
PushFace(buf, n, x, y, z, f, rgb) ==
    LET face == VoxelFaces[f]
        ndx == Len(buf.positions) \div 3
        pos(k) == << 2 * (face.corners[k][1] + x) - (n - 1),
                     2 * (face.corners[k][2] + y) - (n - 1),
                     2 * (face.corners[k][3] + z) - (n - 1) >>
    IN  [positions |-> buf.positions \o (pos(1) \o pos(2) \o pos(3) \o pos(4)),
         normals   |-> buf.normals \o (face.dir \o face.dir \o face.dir \o face.dir),
         colors    |-> buf.colors \o (rgb \o rgb \o rgb \o rgb),
         indices   |-> buf.indices \o <<ndx, ndx + 1, ndx + 2, ndx + 2, ndx + 1, ndx + 3>>]

\* for (const { dir, corners } of VoxelFaces): faces f .. 6 of cell (x,y,z).
\* acc is [threw, buf, tempColor]; a TypeError leaves the loops at once.
RECURSIVE VoxelFacesLoop(_, _, _, _, _, _, _)
VoxelFacesLoop(acc, st, x, y, z, f, rgb) ==
    IF acc.threw \/ f > Len(VoxelFaces) THEN acc
    ELSE LET dir == VoxelFaces[f].dir
             neighborColor == getVoxelColor(st, x + dir[1], y + dir[2], z + dir[3])
             next == IF neighborColor = Thrown
                     THEN [acc EXCEPT !.threw = TRUE]
                     ELSE IF ~Truthy(neighborColor)
                     THEN [acc EXCEPT !.buf = PushFace(acc.buf, st.gridSize, x, y, z, f, rgb)]
                     ELSE acc
         IN  VoxelFacesLoop(next, st, x, y, z, f + 1, rgb)

\* The body of the innermost loop for cell (x, y, z).
VoxelCell(acc, st, x, y, z) ==
    LET voxelColorStr == getVoxelColor(st, x, y, z) IN
    IF voxelColorStr = Thrown
    THEN [acc EXCEPT !.threw = TRUE]
    ELSE IF Truthy(voxelColorStr)
    THEN LET rgb == ColorOf(acc.tempColor, voxelColorStr[1])
         IN  VoxelFacesLoop([acc EXCEPT !.tempColor = rgb], st, x, y, z, 1, rgb)
    ELSE acc

\* The three nested loops, y outermost, then z, then x.
RECURSIVE VoxelXLoop(_, _, _, _, _)
VoxelXLoop(acc, st, y, z, x) ==
    IF acc.threw \/ x >= st.gridSize THEN acc
    ELSE VoxelXLoop(VoxelCell(acc, st, x, y, z), st, y, z, x + 1)

RECURSIVE VoxelZLoop(_, _, _, _)
VoxelZLoop(acc, st, y, z) ==
    IF acc.threw \/ z >= st.gridSize THEN acc
    ELSE VoxelZLoop(VoxelXLoop(acc, st, y, z, 0), st, y, z + 1)

RECURSIVE VoxelLoop(_, _, _)
VoxelLoop(acc, st, y) ==
    IF acc.threw \/ y >= st.gridSize THEN acc
    ELSE VoxelLoop(VoxelZLoop(acc, st, y, 0), st, y + 1)

(***************************************************************************)
(* generateVoxelGeometry(state): throws when voxelData is null (or on a     *)
(* TypeError of getVoxelColor), otherwise returns the four buffers.         *)
(***************************************************************************)
generateVoxelGeometry(st) ==
    IF st.voxelData = Null
    THEN [threw |-> TRUE, buf |-> EmptyBuffers]
    ELSE LET acc == VoxelLoop([threw |-> FALSE, buf |-> EmptyBuffers,
                               tempColor |-> NewColor], st, 0)
         IN  [threw |-> acc.threw, buf |-> acc.buf]

(***************************************************************************)
(* updateVoxelMesh(state).  st carries scene, voxelMesh, meshes, gridSize   *)
(* and voxelData; the result carries their new values, the geometry that    *)
(* was generated (Null if the call returned before generating), whether the *)
(* call threw and whether it disposed the generated geometry as empty.      *)
(***************************************************************************)
DisposeMesh(ms, ref) ==
    [ms EXCEPT ![ref].geometryDisposed = @ + 1, ![ref].materialDisposed = @ + 1]

\* The mesh geometries not yet disposed.
LiveGeometries(ms) == Cardinality({i \in DOMAIN ms : ms[i].geometryDisposed = 0})

\* An installation that makes a mesh of whatever the mesher had built when
\* it threw.
InstallPartial(scene1, meshes1, g) ==
    IF Len(g.buf.indices) > 0
    THEN [scene |-> Some(scene1[1] \cup {Len(meshes1) + 1}),
          voxelMesh |-> Some(Len(meshes1) + 1),
          meshes |-> Append(meshes1, [geometry |-> g.buf, geometryDisposed |-> 0,
                                      materialDisposed |-> 0,
                                      liveAtCreation |-> LiveGeometries(meshes1)]),
          geometry |-> Some(g.buf), threw |-> g.threw, discarded |-> FALSE]
    ELSE [scene |-> scene1, voxelMesh |-> Null, meshes |-> meshes1,
          geometry |-> IF g.threw THEN Null ELSE Some(g.buf), threw |-> g.threw,
          discarded |-> ~g.threw]

\* An installation that creates the mesh whether or not the geometry has
\* indices.
InstallAlways(scene1, meshes1, g) ==
    IF g.threw
    THEN [scene |-> scene1, voxelMesh |-> Null, meshes |-> meshes1,
          geometry |-> Null, threw |-> TRUE, discarded |-> FALSE]
    ELSE [scene |-> Some(scene1[1] \cup {Len(meshes1) + 1}),
          voxelMesh |-> Some(Len(meshes1) + 1),
          meshes |-> Append(meshes1, [geometry |-> g.buf, geometryDisposed |-> 0,
                                      materialDisposed |-> 0,
                                      liveAtCreation |-> LiveGeometries(meshes1)]),
          geometry |-> Some(g.buf), threw |-> FALSE, discarded |-> FALSE]

\* The result of updateVoxelMesh for a scene, mesh list and generated
\* geometry g: the mesh is created only if the geometry has indices.  A mesh
\* records how many mesh geometries were live when its own was created.
Install(scene1, meshes1, g) ==
    IF g.threw
    THEN [scene |-> scene1, voxelMesh |-> Null, meshes |-> meshes1,
          geometry |-> Null, threw |-> TRUE, discarded |-> FALSE]
    ELSE IF Len(g.buf.indices) > 0
    THEN [scene |-> Some(scene1[1] \cup {Len(meshes1) + 1}),
          voxelMesh |-> Some(Len(meshes1) + 1),
          meshes |-> Append(meshes1, [geometry |-> g.buf, geometryDisposed |-> 0,
                                      materialDisposed |-> 0,
                                      liveAtCreation |-> LiveGeometries(meshes1)]),
          geometry |-> Some(g.buf), threw |-> FALSE, discarded |-> FALSE]
    ELSE \* geometry.dispose(): the empty geometry is dropped
         [scene |-> scene1, voxelMesh |-> Null, meshes |-> meshes1,
          geometry |-> Some(g.buf), threw |-> FALSE, discarded |-> TRUE]

\* An updateVoxelMesh that installs the new mesh without removing the old.
updateVoxelMeshKeepOld(st) ==
    IF st.scene = Null
    THEN [scene |-> st.scene, voxelMesh |-> st.voxelMesh, meshes |-> st.meshes,
          geometry |-> Null, threw |-> FALSE, discarded |-> FALSE]
    ELSE Install(st.scene, st.meshes,
                 CHOOSE g \in {generateVoxelGeometry(st)} : TRUE)

\* An updateVoxelMesh that generates and installs the new mesh first and
\* removes and disposes the old one afterwards.
updateVoxelMeshDisposeLast(st) ==
    IF st.scene = Null
    THEN [scene |-> st.scene, voxelMesh |-> st.voxelMesh, meshes |-> st.meshes,
          geometry |-> Null, threw |-> FALSE, discarded |-> FALSE]
    ELSE LET inst == Install(st.scene, st.meshes,
                             CHOOSE g \in {generateVoxelGeometry(st)} : TRUE)
         IN  IF st.voxelMesh # Null
             THEN [inst EXCEPT !.scene = Some(@[1] \ {st.voxelMesh[1]}),
                               !.meshes = DisposeMesh(@, st.voxelMesh[1])]
             ELSE inst

updateVoxelMesh(st) ==
    IF st.scene = Null
    THEN [scene |-> st.scene, voxelMesh |-> st.voxelMesh, meshes |-> st.meshes,
          geometry |-> Null, threw |-> FALSE, discarded |-> FALSE]
    ELSE \* Remove and dispose old mesh if it exists, then generate
         Install(IF st.voxelMesh # Null
                 THEN Some(st.scene[1] \ {st.voxelMesh[1]}) ELSE st.scene,
                 IF st.voxelMesh # Null
                 THEN DisposeMesh(st.meshes, st.voxelMesh[1]) ELSE st.meshes,
                 CHOOSE g \in {generateVoxelGeometry(st)} : TRUE)

\* The worker's state object as the functions above read it.
WState ==
    [gridSize |-> gridSize,
     voxelData |-> IF voxelData = Null THEN Null ELSE Some(heap[voxelData[1]]),
     scene |-> scene, voxelMesh |-> voxelMesh, meshes |-> meshes]

(***************************************************************************)
(* The scripts the page may submit.  interpreter.parse fails on             *)
(* "syntaxError"; the others define draw(x, y, z, gridSize).  A draw result *)
(* is [kind, str]: kind is the JavaScript type of the value (or "throw"),   *)
(* str the string when kind = "string".                                     *)
(***************************************************************************)
Codes == {"syntaxError", "allTrue", "throwOrigin", "mixed"}

Parses(code) == code # "syntaxError"

Result(kind, str) == [kind |-> kind, str |-> str]

MixedResults ==
    << Result("string", "red"), Result("string", ""), Result("true", ""),
       Result("false", ""), Result("null", ""), Result("number", ""),
       Result("throw", ""), Result("list", "") >>

\* interpreter.eval(codeAst, context, ["draw", x, y, z, gridSize])
Draw(code, x, y, z, n) ==
    CASE code = "allTrue" -> Result("true", "")
      [] code = "throwOrigin" ->
            IF x = 0 /\ y = 0 /\ z = 0 THEN Result("throw", "") ELSE Result("true", "")
      [] code = "mixed" -> MixedResults[((x + 2 * y + 4 * z) % Len(MixedResults)) + 1]
      [] OTHER -> Result("null", "")

DefaultColor == "#00ff00"

\* A mapping that colours every result but false and null.
StoredValueTruthy(result) ==
    IF result.kind = "string" THEN Some(result.str)
    ELSE IF result.kind \in {"true", "number", "list"} THEN Some(DefaultColor)
    ELSE Null

\* The value runPythonCode stores for a draw result (a throw stores null).
StoredValue(result) ==
    IF result.kind = "string" THEN Some(result.str)
    ELSE IF result.kind = "true" THEN Some(DefaultColor)
    ELSE Null

YieldEvery == 4

\* The reset loops of runPythonCode over the destructured array and size.
\* With gridSize above the array's size, voxelData[0][arr.n] is undefined and
\* the loops throw TypeError after the rows (0, y) that exist.
ResetThrows(arr, n) == n > arr.n

\* A reset that leaves the array as it was.
ResetCellsSkipped(arr, n) == arr

ResetCells(arr, n) ==
    [arr EXCEPT !.cells =
        [c \in DOMAIN arr.cells |->
            IF ResetThrows(arr, n)
            THEN IF c[1] = 0 THEN Null ELSE arr.cells[c]
            ELSE IF c[1] < n /\ c[2] < n /\ c[3] < n THEN Null ELSE arr.cells[c]]]

\* The innermost loop: cells z .. n-1 of row (x, y).  ev is [arr, warned]:
\* the array and the coordinates of the warnings posted so far.
RECURSIVE EvalRow(_, _, _, _, _, _)
EvalRow(ev, code, n, x, y, z) ==
    IF z >= n THEN ev
    ELSE LET result == Draw(code, x, y, z, n)
             next == [arr |-> [ev.arr EXCEPT !.cells[<<x, y, z>>] = StoredValue(result)],
                      warned |-> IF result.kind = "throw"
                                 THEN Append(ev.warned, <<x, y, z>>)
                                 ELSE ev.warned]
         IN  EvalRow(next, code, n, x, y, z + 1)

\* A runner that awaits after the first row of each x only.
YieldsAfterFirstRow(y) == y = 0

\* if (y % 4 === 0) await ...
YieldsAfter(y) == y % YieldEvery = 0

\* The rows evaluated from row (x, y) on, up to and including the next row
\* after which the runner awaits, or to the end of the loops.  The result
\* adds where it stopped: [x, y] of the last row and whether the loops ended.
RECURSIVE EvalRows(_, _, _, _, _)
EvalRows(ev, code, n, x, y) ==
    IF x >= n THEN [arr |-> ev.arr, warned |-> ev.warned, x |-> x, y |-> y, ended |-> TRUE]
    ELSE IF y >= n THEN EvalRows(ev, code, n, x + 1, 0)
    ELSE LET row == EvalRow(ev, code, n, x, y, 0) IN
         IF YieldsAfter(y)
         THEN [arr |-> row.arr, warned |-> row.warned, x |-> x, y |-> y, ended |-> FALSE]
         ELSE EvalRows(row, code, n, x, y + 1)

(***************************************************************************)
(* Messages.  The worker answers with [type, status, message]; the text of  *)
(* an error names the handler that failed.                                  *)
(***************************************************************************)
InitMsg(n) == [type |-> "init", gridSize |-> n, code |-> ""]
RunMsg(code) == [type |-> "runPythonCode", gridSize |-> 0, code |-> code]
TerminateMsg == [type |-> "terminate", gridSize |-> 0, code |-> ""]

Success(type) == [type |-> type, status |-> "success", message |-> ""]
Error(message) == [type |-> "error", status |-> "", message |-> message]

\* The catch of runPythonCode: whatever was thrown, one 'error' message whose
\* text is a fixed prefix followed by the message of the error.
RunError(why) ==
    Error(CASE why = "SyntaxError" -> "Code execution failed: SyntaxError"
            [] why = "TypeError" -> "Code execution failed: TypeError"
            [] OTHER -> "Code execution failed: Interpreter, scene, or voxelData not initialized")

\* A run record: the code, the array and size runPythonCode destructured
\* from state, the last row it finished, where it is (pc), why it failed,
\* how many times it has called updateVoxelMesh, and the message it posted
\* when it ended (Null before).
NewRun(code) ==
    [code |-> code, voxelData |-> 0, gridSize |-> gridSize, x |-> 0, y |-> 0,
     pc |-> "failed", failure |-> "", meshUpdates |-> 0, reply |-> Null]

(***************************************************************************)
(* Init: the worker module has loaded and the Canvas has mounted, so its    *)
(* effects have created the worker and posted the first init.               *)
(***************************************************************************)
Init ==
    /\ gridSize = 0
    /\ voxelData = Null
    /\ heap = <<>>
    /\ interpreter = FALSE
    /\ scene = Null
    /\ voxelMesh = Null
    /\ meshes = <<>>
    /\ geometry = Null
    /\ runs = <<>>
    /\ \E n \in 1 .. MaxGrid : inbox = <<InitMsg(n)>>
    /\ outbox = <<>>
    /\ warnings = <<>>
    /\ isExecutingRef = FALSE
    /\ posts = 0
    /\ call = NoCall
    \* The scripts of Codes store only strings the parser accepts, so the outcome
    \* of a failed parse has no effect here.
    /\ colorSet = "throws"
    /\ terminated = FALSE

(***************************************************************************)
(* The page.                                                                *)
(***************************************************************************)
\* posts counts the messages posted after the mount.
CanPost == posts < MaxPosts /\ Len(inbox) < MaxInbox

\* Canvas, "Initialize Three.js scene" effect: runs on mount and whenever
\* width, height or effectiveGridSize change, and posts init each time
\* (globalContext.renderer is never set, so the reattach branch is dead).
CanvasInit ==
    /\ CanPost
    /\ \E n \in 1 .. MaxGrid : inbox' = Append(inbox, InitMsg(n))
    /\ posts' = posts + 1
    /\ UNCHANGED <<gridSize, voxelData, heap, interpreter, scene, voxelMesh, meshes,
                   geometry, runs, outbox, warnings, isExecutingRef, call, colorSet, terminated>>

\* Canvas, "executing Python code" effect with shouldRun set: guarded by
\* isExecutingRef, it sets the flag, posts the code and registers
\* messageHandler.
CanvasRun ==
    /\ CanPost
    /\ ~isExecutingRef
    /\ \E code \in Codes : inbox' = Append(inbox, RunMsg(code))
    /\ isExecutingRef' = TRUE
    /\ posts' = posts + 1
    /\ UNCHANGED <<gridSize, voxelData, heap, interpreter, scene, voxelMesh, meshes,
                   geometry, runs, outbox, warnings, call, colorSet, terminated>>

\* A 'terminate' message, which the worker's handler table accepts.
PageTerminate ==
    /\ CanPost
    /\ inbox' = Append(inbox, TerminateMsg)
    /\ posts' = posts + 1
    /\ UNCHANGED <<gridSize, voxelData, heap, interpreter, scene, voxelMesh, meshes,
                   geometry, runs, outbox, warnings, isExecutingRef, call, colorSet, terminated>>

\* Canvas receives the worker's next message.  messageHandler is registered
\* exactly while isExecutingRef is set; it takes a runPythonCode success or
\* any error for the end of the run.  worker.onmessage only logs.
CanvasOnMessage ==
    /\ outbox # <<>>
    /\ outbox' = Tail(outbox)
    /\ LET m == Head(outbox) IN
       isExecutingRef' =
           IF isExecutingRef /\ (\/ (m.type = "runPythonCode" /\ m.status = "success")
                                 \/ m.type = "error")
           THEN FALSE
           ELSE isExecutingRef
    /\ UNCHANGED <<gridSize, voxelData, heap, interpreter, scene, voxelMesh, meshes,
                   geometry, runs, inbox, warnings, posts, call, colorSet, terminated>>

(***************************************************************************)
(* The worker's handlers.                                                   *)
(***************************************************************************)
\* init(data).  new THREE.WebGLRenderer may throw (no context): the catch
\* posts the error after gridSize and interpreter were already assigned.
WorkerInit ==
    /\ inbox # <<>> /\ Head(inbox).type = "init"
    /\ inbox' = Tail(inbox)
    /\ gridSize' = Head(inbox).gridSize
    /\ interpreter' = TRUE
    /\ \E rendererOk \in BOOLEAN :
         IF rendererOk
         THEN \E n \in {Head(inbox).gridSize} :
              \E u \in {updateVoxelMesh([gridSize |-> n,
                                          voxelData |-> Some(NewVoxelArray(n)),
                                          scene |-> Some({}),
                                          voxelMesh |-> voxelMesh,
                                          meshes |-> meshes])} :
                  /\ heap' = Append(heap, NewVoxelArray(n))
                  /\ voxelData' = Some(Len(heap) + 1)
                  /\ scene' = u.scene
                  /\ voxelMesh' = u.voxelMesh
                  /\ meshes' = u.meshes
                  /\ geometry' = u.geometry
                  /\ outbox' = Append(outbox, Success("init"))
         ELSE /\ outbox' = Append(outbox, Error("Initialization failed"))
              /\ UNCHANGED <<voxelData, heap, scene, voxelMesh, meshes, geometry>>
    /\ UNCHANGED <<runs, warnings, isExecutingRef, posts, call, colorSet, terminated>>

\* An end of runPythonCode whose catch also runs after the success message
\* was posted.
FinishRunTwoReplies(r, run, ev) ==
    \E u \in {updateVoxelMesh(
                 [gridSize |-> gridSize,
                  voxelData |-> IF voxelData = Null THEN Null
                                ELSE IF voxelData[1] = run.voxelData THEN Some(ev.arr)
                                ELSE Some(heap[voxelData[1]]),
                  scene |-> scene, voxelMesh |-> voxelMesh, meshes |-> meshes])} :
        /\ scene' = u.scene
        /\ voxelMesh' = u.voxelMesh
        /\ meshes' = u.meshes
        /\ geometry' = IF u.geometry = Null THEN geometry ELSE u.geometry
        /\ runs' = [runs EXCEPT ![r] =
                      [run EXCEPT !.pc = "failed", !.failure = "TypeError",
                                  !.x = ev.x, !.y = ev.y,
                                  !.meshUpdates = @ + 1,
                                  !.reply = Some(RunError("TypeError"))]]
        /\ outbox' = outbox \o <<Success("runPythonCode"), RunError("TypeError")>>

\* An end of runPythonCode that reports success without calling
\* updateVoxelMesh.
FinishRunNoUpdate(r, run, ev) ==
    /\ runs' = [runs EXCEPT ![r] =
                  [run EXCEPT !.pc = "success", !.x = ev.x, !.y = ev.y,
                              !.reply = Some(Success("runPythonCode"))]]
    /\ outbox' = Append(outbox, Success("runPythonCode"))
    /\ UNCHANGED <<scene, voxelMesh, meshes, geometry>>

\* An end of runPythonCode that meshes the grid as it was before the last
\* stretch of the evaluation loops.
FinishRunStale(r, run, ev) ==
    \E u \in {updateVoxelMesh(WState)} :
        /\ scene' = u.scene
        /\ voxelMesh' = u.voxelMesh
        /\ meshes' = u.meshes
        /\ geometry' = IF u.geometry = Null THEN geometry ELSE u.geometry
        /\ runs' = [runs EXCEPT ![r] =
                      [run EXCEPT !.pc = IF u.threw THEN "failed" ELSE "success",
                                  !.failure = IF u.threw THEN "TypeError" ELSE "",
                                  !.x = ev.x, !.y = ev.y,
                                  !.meshUpdates = @ + 1,
                                  !.reply = Some(IF u.threw THEN RunError("TypeError")
                                                 ELSE Success("runPythonCode"))]]
        /\ outbox' = Append(outbox, IF u.threw
                                    THEN RunError("TypeError")
                                    ELSE Success("runPythonCode"))

\* The end of runPythonCode once the loops are over: updateVoxelMesh(),
\* then the success message, or the catch when updateVoxelMesh threw.
\* run is the record to store, ev the evaluation so far.
FinishRun(r, run, ev) ==
    \E u \in {updateVoxelMesh(
                 [gridSize |-> gridSize,
                  voxelData |-> IF voxelData = Null THEN Null
                                ELSE IF voxelData[1] = run.voxelData THEN Some(ev.arr)
                                ELSE Some(heap[voxelData[1]]),
                  scene |-> scene, voxelMesh |-> voxelMesh, meshes |-> meshes])} :
        /\ scene' = u.scene
        /\ voxelMesh' = u.voxelMesh
        /\ meshes' = u.meshes
        /\ geometry' = IF u.geometry = Null THEN geometry ELSE u.geometry
        /\ runs' = [runs EXCEPT ![r] =
                      [run EXCEPT !.pc = IF u.threw THEN "failed" ELSE "success",
                                  !.failure = IF u.threw THEN "TypeError" ELSE "",
                                  !.x = ev.x, !.y = ev.y,
                                  !.meshUpdates = @ + 1,
                                  !.reply = Some(IF u.threw THEN RunError("TypeError")
                                                 ELSE Success("runPythonCode"))]]
        /\ outbox' = Append(outbox, IF u.threw
                                    THEN RunError("TypeError")
                                    ELSE Success("runPythonCode"))

\* What one stretch of the evaluation loops leaves behind: the array, the
\* warnings, and either the suspended run or the finished one.
Evaluated(r, run, ev) ==
    /\ heap' = [heap EXCEPT ![run.voxelData] = ev.arr]
    /\ warnings' = warnings \o [i \in 1 .. Len(ev.warned) |-> [run |-> r, cell |-> ev.warned[i]]]
    /\ IF ev.ended
       THEN FinishRun(r, run, ev)
       ELSE /\ runs' = [runs EXCEPT ![r] = [run EXCEPT !.pc = "Evaluating",
                                                        !.x = ev.x, !.y = ev.y]]
            /\ UNCHANGED <<scene, voxelMesh, meshes, geometry, outbox>>

\* runPythonCode(data), from the message to its first await or its end.
WorkerRunPythonCode ==
    /\ inbox # <<>> /\ Head(inbox).type = "runPythonCode"
    /\ inbox' = Tail(inbox)
    /\ LET code == Head(inbox).code
           r == Len(runs) + 1
           run0 == NewRun(code)
           Fail(why) ==
               /\ runs' = Append(runs, [run0 EXCEPT !.failure = why,
                                                    !.reply = Some(RunError(why))])
               /\ outbox' = Append(outbox, RunError(why))
       IN
       IF ~interpreter \/ scene = Null \/ voxelData = Null
       THEN /\ Fail("not initialized")
            /\ UNCHANGED <<heap, warnings, scene, voxelMesh, meshes, geometry>>
       ELSE
       LET ref == voxelData[1]
           run1 == [run0 EXCEPT !.voxelData = ref]
           reset == ResetCells(heap[ref], gridSize)
       IN
       IF ResetThrows(heap[ref], gridSize)
       THEN /\ runs' = Append(runs, [run1 EXCEPT !.failure = "TypeError",
                                                 !.reply = Some(RunError("TypeError"))])
            /\ outbox' = Append(outbox, RunError("TypeError"))
            /\ heap' = [heap EXCEPT ![ref] = reset]
            /\ UNCHANGED <<warnings, scene, voxelMesh, meshes, geometry>>
       ELSE IF ~Parses(code)
       THEN /\ runs' = Append(runs, [run1 EXCEPT !.failure = "SyntaxError",
                                                 !.reply = Some(RunError("SyntaxError"))])
            /\ outbox' = Append(outbox, RunError("SyntaxError"))
            /\ heap' = [heap EXCEPT ![ref] = reset]
            /\ UNCHANGED <<warnings, scene, voxelMesh, meshes, geometry>>
       ELSE \E ev \in {EvalRows([arr |-> reset, warned |-> <<>>], code, gridSize, 0, 0)} :
                /\ heap' = [heap EXCEPT ![ref] = ev.arr]
                /\ warnings' = warnings \o [i \in 1 .. Len(ev.warned) |->
                                               [run |-> r, cell |-> ev.warned[i]]]
                \* gridSize >= 1, so the first stretch always ends at an await
                /\ runs' = Append(runs, [run1 EXCEPT !.pc = "Evaluating",
                                                      !.x = ev.x, !.y = ev.y])
                /\ UNCHANGED <<scene, voxelMesh, meshes, geometry, outbox>>
    /\ UNCHANGED <<gridSize, voxelData, interpreter, isExecutingRef, posts, call, colorSet,
                   terminated>>

\* The timer of an await fires: run r goes on from the row after (x, y).
WorkerResume ==
    \E r \in DOMAIN runs :
        /\ runs[r].pc = "Evaluating"
        /\ \E ev \in {EvalRows([arr |-> heap[runs[r].voxelData], warned |-> <<>>],
                               runs[r].code, runs[r].gridSize, runs[r].x, runs[r].y + 1)} :
              Evaluated(r, runs[r], ev)
        /\ UNCHANGED <<gridSize, voxelData, interpreter, inbox, isExecutingRef, posts, call,
                       colorSet, terminated>>

\* A terminate that clears the state without disposing the voxel mesh.
WorkerTerminateNoDispose ==
    /\ inbox # <<>> /\ Head(inbox).type = "terminate"
    /\ inbox' = Tail(inbox)
    /\ interpreter' = FALSE
    /\ scene' = Null
    /\ voxelData' = Null
    /\ voxelMesh' = Null
    /\ outbox' = Append(outbox, Success("terminate"))
    /\ terminated' = TRUE
    /\ UNCHANGED <<gridSize, heap, meshes, geometry, runs, warnings, isExecutingRef,
                   posts, call, colorSet>>

\* terminate()
WorkerTerminate ==
    /\ inbox # <<>> /\ Head(inbox).type = "terminate"
    /\ inbox' = Tail(inbox)
    /\ meshes' = IF voxelMesh # Null THEN DisposeMesh(meshes, voxelMesh[1]) ELSE meshes
    /\ interpreter' = FALSE
    /\ scene' = Null
    /\ voxelData' = Null
    /\ voxelMesh' = Null
    /\ outbox' = Append(outbox, Success("terminate"))
    /\ terminated' = TRUE
    /\ UNCHANGED <<gridSize, heap, geometry, runs, warnings, isExecutingRef, posts, call,
                   colorSet>>

Next ==
    \/ CanvasInit
    \/ CanvasRun
    \/ PageTerminate
    \/ CanvasOnMessage
    \/ WorkerInit
    \/ WorkerRunPythonCode
    \/ WorkerResume
    \/ WorkerTerminate

Spec == Init /\ [][Next]_vars

(***************************************************************************)
(* SpecWorker: the worker alone, driven by a client that may post any       *)
(* message its handler table accepts at any time (no isExecutingRef).       *)
(* Every behaviour of the worker under Spec is one of these.                *)
(***************************************************************************)
Messages ==
    {InitMsg(n) : n \in 1 .. MaxGrid} \cup {RunMsg(code) : code \in Codes} \cup {TerminateMsg}

ClientPost ==
    /\ posts < MaxMsgs /\ Len(inbox) < MaxInbox
    /\ \E m \in Messages : inbox' = Append(inbox, m)
    /\ posts' = posts + 1
    /\ UNCHANGED <<gridSize, voxelData, heap, interpreter, scene, voxelMesh, meshes,
                   geometry, runs, outbox, warnings, isExecutingRef, call, colorSet, terminated>>

NextWorker ==
    \/ ClientPost
    \/ WorkerInit
    \/ WorkerRunPythonCode
    \/ WorkerResume
    \/ WorkerTerminate

SpecWorker == Init /\ [][NextWorker]_vars

(***************************************************************************)
(* SpecGeom: the mesher and updateVoxelMesh on their own.  The worker is    *)
(* initialised and idle, and its grid holds any colours a script can have   *)
(* stored in at most MaxOccupied cells; updateVoxelMesh is then called,     *)
(* any number of times.                                                     *)
(***************************************************************************)
GeomTokens == {"red", ""}

RECURSIVE SubsetsUpTo(_, _)
SubsetsUpTo(S, k) ==
    IF k = 0 THEN {{}}
    ELSE LET P == SubsetsUpTo(S, k - 1) IN P \cup {p \cup {c} : p \in P, c \in S}

GeomGrids(n) ==
    UNION { { [c \in Cells(n) |-> IF c \in occ THEN Some(col[c]) ELSE Null]
              : col \in [occ -> GeomTokens] }
            : occ \in SubsetsUpTo(Cells(n), MaxOccupied) }

GeomInit ==
    /\ gridSize \in 1 .. MaxGeomGrid
    /\ voxelData = Some(1)
    /\ \E g \in GeomGrids(gridSize) : heap = <<[n |-> gridSize, cells |-> g]>>
    /\ interpreter = TRUE
    /\ scene = Some({})
    /\ voxelMesh = Null
    /\ meshes = <<>>
    /\ geometry = Null
    /\ runs = <<>>
    /\ inbox = <<>>
    /\ outbox = <<>>
    /\ warnings = <<>>
    /\ isExecutingRef = FALSE
    /\ posts = 0
    /\ call = NoCall
    \* GeomTokens holds no string the parser rejects, so the outcome of a failed
    \* parse has no effect here.
    /\ colorSet = "throws"
    /\ terminated = FALSE

MaxGeomUpdates == 2

\* updateVoxelMesh(state), called directly.
GeomUpdate ==
    /\ posts < MaxGeomUpdates
    /\ \E u \in {updateVoxelMesh(WState)} :
        /\ scene' = u.scene
        /\ voxelMesh' = u.voxelMesh
        /\ meshes' = u.meshes
        /\ geometry' = u.geometry
    /\ posts' = posts + 1
    /\ UNCHANGED <<gridSize, voxelData, heap, interpreter, runs, inbox, outbox,
                   warnings, isExecutingRef, call, colorSet, terminated>>

SpecGeom == GeomInit /\ [][GeomUpdate]_vars

(***************************************************************************)
(* SpecScene: SpecWorker plus direct calls of updateVoxelMesh, the          *)
(* operation voxel-utils exports.                                           *)
(***************************************************************************)
CallUpdateVoxelMesh ==
    /\ posts < MaxMsgs
    /\ \E u \in {updateVoxelMesh(WState)} :
        /\ scene' = u.scene
        /\ voxelMesh' = u.voxelMesh
        /\ meshes' = u.meshes
        /\ geometry' = IF u.geometry = Null THEN geometry ELSE u.geometry
    /\ posts' = posts + 1
    /\ UNCHANGED <<gridSize, voxelData, heap, interpreter, runs, inbox, outbox,
                   warnings, isExecutingRef, call, colorSet, terminated>>

NextScene == NextWorker \/ CallUpdateVoxelMesh

SpecScene == Init /\ [][NextScene]_vars

(***************************************************************************)
(* Reading a mesh buffer back: the faces it holds.  Quad q occupies         *)
(* positions 12(q-1)+1 .. 12q; its normal names the entry of VoxelFaces and *)
(* its first corner the cell.                                               *)
(***************************************************************************)
QuadCount(buf) == Len(buf.positions) \div 12

FaceAt(buf, n, q) ==
    LET base == 12 * (q - 1)
        normal == <<buf.normals[base + 1], buf.normals[base + 2], buf.normals[base + 3]>>
        f == CHOOSE i \in 1 .. Len(VoxelFaces) : VoxelFaces[i].dir = normal
        coord(a) == (buf.positions[base + a] + (n - 1)) \div 2 - VoxelFaces[f].corners[1][a]
    IN  <<coord(1), coord(2), coord(3), f>>

EmittedFaces(buf, n) == {FaceAt(buf, n, q) : q \in 1 .. QuadCount(buf)}

\* The grid as the specification reads it: a cell is occupied when its
\* value is present, and a neighbour outside the grid is absent.
Present(cells, n, x, y, z) ==
    /\ <<x, y, z>> \in Cells(n)
    /\ cells[<<x, y, z>>] # Null

NeighbourPresent(cells, n, x, y, z, f) ==
    Present(cells, n, x + VoxelFaces[f].dir[1], y + VoxelFaces[f].dir[2],
            z + VoxelFaces[f].dir[3])

ExposedFaces(cells, n) ==
    {<<c[1], c[2], c[3], f>> : c \in Cells(n), f \in 1 .. Len(VoxelFaces)} \cap
    {e \in (0 .. n - 1) \X (0 .. n - 1) \X (0 .. n - 1) \X (1 .. Len(VoxelFaces)) :
        /\ Present(cells, n, e[1], e[2], e[3])
        /\ ~NeighbourPresent(cells, n, e[1], e[2], e[3], e[4])}

OccupiedCells(cells, n) == {c \in Cells(n) : cells[c] # Null}

\* Ordered pairs (cell, direction) whose two ends are both occupied: twice
\* the number of face-adjacent occupied pairs.
AdjacentEnds(cells, n) ==
    {e \in (0 .. n - 1) \X (0 .. n - 1) \X (0 .. n - 1) \X (1 .. Len(VoxelFaces)) :
        /\ Present(cells, n, e[1], e[2], e[3])
        /\ NeighbourPresent(cells, n, e[1], e[2], e[3], e[4])}

\* The grid updateVoxelMesh read in SpecGeom.
GeomCells == heap[1].cells

(***************************************************************************)
(* C1.  For every grid, every occupied cell c and every direction d, the    *)
(* face (c, d) is emitted if and only if the neighbour c + d is absent      *)
(* (a neighbour outside the grid is absent); no other face is emitted.      *)
(* Checked under SpecGeom.                                                  *)
(***************************************************************************)
C1_FaceIffNeighbourAbsent ==
    geometry # Null =>
        /\ EmittedFaces(geometry[1], gridSize) = ExposedFaces(GeomCells, gridSize)
        /\ QuadCount(geometry[1]) = Cardinality(ExposedFaces(GeomCells, gridSize))

(***************************************************************************)
(* C9.  The mesh buffer of any grid has positions, normals and colors of    *)
(* equal length, three per vertex; four vertices and six indices per face;  *)
(* and every index below the vertex count.  The faces are counted as the    *)
(* distinct (cell, direction) quads the buffer holds.  Under SpecGeom.      *)
(***************************************************************************)
C9_BufferShape ==
    geometry # Null =>
        LET buf == geometry[1]
            vertexCount == Len(buf.positions) \div 3
        IN  /\ Len(buf.positions) = Len(buf.normals)
            /\ Len(buf.positions) = Len(buf.colors)
            /\ Len(buf.positions) % 3 = 0
            /\ vertexCount = 4 * Cardinality(EmittedFaces(buf, gridSize))
            /\ Len(buf.indices) = 6 * Cardinality(EmittedFaces(buf, gridSize))
            /\ \A i \in 1 .. Len(buf.indices) :
                   buf.indices[i] >= 0 /\ buf.indices[i] < vertexCount

\* A buffer of at least two faces was generated.
C9_Witness ==
    /\ geometry # Null
    /\ Len(geometry[1].indices) >= 12

(***************************************************************************)
(* C10.  The number of faces built equals 6 times the number of occupied    *)
(* cells minus 2 times the number of face-adjacent occupied pairs, with 4   *)
(* vertices and 6 indices per face.  Under SpecGeom.                        *)
(***************************************************************************)
C10_FaceCount ==
    geometry # Null =>
        LET faces == 6 * Cardinality(OccupiedCells(GeomCells, gridSize))
                     - Cardinality(AdjacentEnds(GeomCells, gridSize))
        IN  /\ Len(geometry[1].indices) = 6 * faces
            /\ Len(geometry[1].positions) = 12 * faces

(***************************************************************************)
(* C8.  The mesher treats a cell as occupied (the cell emits faces, and it  *)
(* occludes the faces its neighbours turn towards it) exactly when the      *)
(* cell's stored value is present, whatever string was stored, the empty    *)
(* string included.  Under SpecGeom.                                        *)
(***************************************************************************)
Opposite(f) ==
    CHOOSE i \in 1 .. Len(VoxelFaces) :
        \A a \in 1 .. 3 : VoxelFaces[i].dir[a] = 0 - VoxelFaces[f].dir[a]

EmitsFaces(buf, n, x, y, z) ==
    \E f \in 1 .. Len(VoxelFaces) : <<x, y, z, f>> \in EmittedFaces(buf, n)

\* The neighbour on side f of the cell is drawn, without the face it turns
\* towards the cell.
Occludes(buf, n, x, y, z) ==
    \E f \in 1 .. Len(VoxelFaces) :
        LET nx == x + VoxelFaces[f].dir[1]
            ny == y + VoxelFaces[f].dir[2]
            nz == z + VoxelFaces[f].dir[3]
        IN  /\ EmitsFaces(buf, n, nx, ny, nz)
            /\ <<nx, ny, nz, Opposite(f)>> \notin EmittedFaces(buf, n)

C8_OccupiedIffPresent ==
    geometry # Null =>
        \A c \in Cells(gridSize) :
            (GeomCells[c] # Null) <=>
                (\/ EmitsFaces(geometry[1], gridSize, c[1], c[2], c[3])
                 \/ Occludes(geometry[1], gridSize, c[1], c[2], c[3]))

RowsDone(run) ==
    IF run.pc = "Evaluating" THEN run.x * run.gridSize + run.y + 1
    ELSE IF run.pc = "success" \/ run.meshUpdates > 0 THEN run.gridSize * run.gridSize
    ELSE 0

HasRowsLeft(run) ==
    run.pc = "Evaluating" /\ RowsDone(run) < run.gridSize * run.gridSize

\* The mapping of a draw result to a stored value, as the specification
\* states it.
MappedValue(result) ==
    CASE result.kind = "string" -> Some(result.str)
      [] result.kind = "true" -> Some("#00ff00")
      [] OTHER -> Null

Throws(run, c) == Draw(run.code, c[1], c[2], c[3], run.gridSize).kind = "throw"

(***************************************************************************)
(* C3.  A runPythonCode request handled while an earlier run is still       *)
(* evaluating is rejected without side effects: it neither resets nor       *)
(* writes the grid, starts no evaluation and calls no updateVoxelMesh.      *)
(* Under Spec.                                                              *)
(***************************************************************************)
C3_SecondRunRejected ==
    [][ ( /\ inbox # <<>>
          /\ Head(inbox).type = "runPythonCode"
          /\ Len(runs') = Len(runs) + 1
          /\ \E r \in DOMAIN runs : runs[r].pc = "Evaluating" )
        => ( /\ heap' = heap
             /\ runs'[Len(runs')].pc = "failed"
             /\ runs'[Len(runs')].meshUpdates = 0
             /\ <<scene', voxelMesh', meshes'>> = <<scene, voxelMesh, meshes>> ) ]_vars

(***************************************************************************)
(* C4.  The mesher never reads a grid that is mid-mutation: when a run      *)
(* calls updateVoxelMesh, no other run is suspended in its evaluation of    *)
(* the array the mesher reads with rows still to write.  Under Spec.        *)
(***************************************************************************)
C4_MesherReadsSettledGrid ==
    [][ \A r \in DOMAIN runs :
          runs'[r].meshUpdates > runs[r].meshUpdates =>
              \A q \in DOMAIN runs' \ {r} :
                  ~( /\ HasRowsLeft(runs'[q])
                     /\ voxelData' # Null
                     /\ runs'[q].voxelData = voxelData'[1] ) ]_vars

(***************************************************************************)
(* C5.  When interpreter.parse fails, the run ends at once: every cell of   *)
(* the grid is absent, the run has not called updateVoxelMesh (the scene    *)
(* and the mesh are untouched), no cell was evaluated, and the run is       *)
(* reported by an error message.  Under SpecWorker.                         *)
(***************************************************************************)
C5_ParseFailure ==
    [][ ( /\ Len(runs') = Len(runs) + 1
          /\ runs'[Len(runs')].failure = "SyntaxError" )
        => ( /\ \A c \in Cells(gridSize') :
                    getVoxelColor(WState', c[1], c[2], c[3]) = Null
             /\ runs'[Len(runs')].pc = "failed"
             /\ runs'[Len(runs')].meshUpdates = 0
             /\ <<scene', voxelMesh', meshes', geometry'>> = <<scene, voxelMesh, meshes, geometry>>
             /\ warnings' = warnings
             /\ Len(outbox') = Len(outbox) + 1
             /\ outbox'[Len(outbox')].type = "error" ) ]_vars

\* A run failed to parse on a grid that an earlier run had coloured.
C5_Witness ==
    \E r \in DOMAIN runs :
        /\ runs[r].failure = "SyntaxError"
        /\ \E q \in 1 .. r - 1 :
              /\ runs[q].pc = "success"
              /\ runs[q].code = "allTrue"
              /\ runs[q].voxelData = runs[r].voxelData

(***************************************************************************)
(* C6.  When draw throws for some cells but not for others, the run         *)
(* completes and reports success; in the final grid every cell whose        *)
(* evaluation threw is absent and every other cell holds the value mapped   *)
(* from its result; and exactly one warning carries the coordinate of each  *)
(* throwing cell.  Under Spec.                                              *)
(***************************************************************************)
C6_PartialThrow ==
    [][ \A r \in DOMAIN runs :
          ( /\ runs[r].pc = "Evaluating"
            /\ runs'[r].pc # "Evaluating"
            /\ \E c \in Cells(runs[r].gridSize) : Throws(runs[r], c)
            /\ \E c \in Cells(runs[r].gridSize) : ~Throws(runs[r], c) )
          => LET run == runs'[r] IN
             /\ run.pc = "success"
             /\ \A c \in Cells(run.gridSize) :
                   /\ heap'[run.voxelData].cells[c] =
                         (IF Throws(run, c) THEN Null
                          ELSE MappedValue(Draw(run.code, c[1], c[2], c[3], run.gridSize)))
                   /\ Cardinality({i \in DOMAIN warnings' :
                                      warnings'[i] = [run |-> r, cell |-> c]})
                         = (IF Throws(run, c) THEN 1 ELSE 0) ]_vars

(***************************************************************************)
(* C7.  Every cell a run evaluates without a throw is written with the      *)
(* value its draw result determines: a string verbatim, true as '#00ff00',  *)
(* anything else (false, null, a number, a list) as absent.  Checked on     *)
(* the rows each step of a run evaluates.  Under SpecWorker.                *)
(***************************************************************************)
C7_ResultMapping ==
    [][ \A r \in DOMAIN runs' :
          LET run == runs'[r]
              n == run.gridSize
              from == IF r \in DOMAIN runs THEN RowsDone(runs[r]) ELSE 0
          IN  \A x \in 0 .. n - 1 : \A y \in 0 .. n - 1 : \A z \in 0 .. n - 1 :
                ( /\ from <= x * n + y
                  /\ x * n + y < RowsDone(run)
                  /\ ~Throws(run, <<x, y, z>>) )
                => heap'[run.voxelData].cells[<<x, y, z>>] =
                      MappedValue(Draw(run.code, x, y, z, n)) ]_vars

\* A run whose draw returned every kind of value has completed.
C7_Witness ==
    \E r \in DOMAIN runs :
        /\ runs[r].code = "mixed"
        /\ runs[r].gridSize = 2
        /\ runs[r].pc = "success"

(***************************************************************************)
(* C11.  A run whose draw returns True for every cell of a 2x2x2 grid ends  *)
(* with every cell of the grid holding the default colour token and with    *)
(* an installed mesh of exactly 24 faces, each turned towards a neighbour   *)
(* outside the grid.  Under Spec.                                           *)
(***************************************************************************)
OnBoundary(n, e) ==
    <<e[1] + VoxelFaces[e[4]].dir[1], e[2] + VoxelFaces[e[4]].dir[2],
      e[3] + VoxelFaces[e[4]].dir[3]>> \notin Cells(n)

C11_AllTrueCube ==
    [][ \A r \in DOMAIN runs :
          ( /\ runs[r].pc = "Evaluating"
            /\ runs'[r].pc # "Evaluating"
            /\ runs[r].code = "allTrue"
            /\ runs[r].gridSize = 2 )
          => /\ runs'[r].pc = "success"
             /\ \A c \in Cells(2) : heap'[runs'[r].voxelData].cells[c] = Some("#00ff00")
             /\ voxelMesh' # Null
             /\ QuadCount(meshes'[voxelMesh'[1]].geometry) = 24
             /\ \A e \in EmittedFaces(meshes'[voxelMesh'[1]].geometry, 2) :
                    OnBoundary(2, e) ]_vars

(***************************************************************************)
(* SpecUtils: the functions voxel-utils exports, called directly on a       *)
(* WorkerState.  The state has any grid size and either no voxel array or   *)
(* a cubic one of any size (resetVoxelData expects both), whose cells hold  *)
(* one value throughout, but for at most one cell.  The values are null,    *)
(* a colour name, the empty string and a string that is no colour.          *)
(***************************************************************************)
MaxUtilGrid == 2
MaxUtilCalls == 3

UtilValues == {Null, Some("red"), Some(""), Some("zzz")}

UtilGrids(m) ==
    {[c \in Cells(m) |-> base] : base \in UtilValues} \cup
    {[c \in Cells(m) |-> IF c = odd THEN v ELSE base] :
        base \in UtilValues, odd \in Cells(m), v \in UtilValues}

UtilInit ==
    /\ gridSize \in 1 .. MaxUtilGrid
    /\ \/ voxelData = Null /\ heap = <<>>
       \/ /\ voxelData = Some(1)
          /\ \E m \in 1 .. MaxUtilGrid : \E g \in UtilGrids(m) :
                heap = <<[n |-> m, cells |-> g]>>
    /\ interpreter = TRUE
    /\ scene = Some({})
    /\ voxelMesh = Null
    /\ meshes = <<>>
    /\ geometry = Null
    /\ runs = <<>>
    /\ inbox = <<>>
    /\ outbox = <<>>
    /\ warnings = <<>>
    /\ isExecutingRef = FALSE
    /\ posts = 0
    /\ call = NoCall
    /\ colorSet \in ColorSetOutcomes
    /\ terminated = FALSE

\* A reset that allocates only when there is no array at all.
resetVoxelDataSameArray(st) ==
    IF st.voxelData = Null
    THEN [arr |-> NewVoxelArray(st.gridSize), fresh |-> TRUE]
    ELSE [arr |-> [st.voxelData[1] EXCEPT !.cells =
                      [c \in DOMAIN st.voxelData[1].cells |->
                          IF c \in Cells(st.gridSize) THEN Null
                          ELSE st.voxelData[1].cells[c]]],
          fresh |-> FALSE]

\* A reset that leaves an array of the right size as it is.
resetVoxelDataKeepsCells(st) ==
    IF st.voxelData = Null \/ st.voxelData[1].n # st.gridSize
    THEN [arr |-> NewVoxelArray(st.gridSize), fresh |-> TRUE]
    ELSE [arr |-> st.voxelData[1], fresh |-> FALSE]

\* resetVoxelData(state): the array state.voxelData holds afterwards, and
\* whether it is a newly allocated one.
resetVoxelData(st) ==
    IF st.voxelData = Null \/ st.voxelData[1].n # st.gridSize
    THEN [arr |-> NewVoxelArray(st.gridSize), fresh |-> TRUE]
    ELSE [arr |-> [st.voxelData[1] EXCEPT !.cells = EmptyGrid(st.gridSize)],
          fresh |-> FALSE]

CallResetVoxelData ==
    /\ posts < MaxUtilCalls
    /\ \E res \in {resetVoxelData(WState)} :
          IF res.fresh
          THEN /\ heap' = Append(heap, res.arr)
               /\ voxelData' = Some(Len(heap) + 1)
          ELSE /\ heap' = [heap EXCEPT ![voxelData[1]] = res.arr]
               /\ voxelData' = voxelData
    /\ call' = [fn |-> "resetVoxelData", threw |-> FALSE, discarded |-> FALSE]
    /\ posts' = posts + 1
    /\ UNCHANGED <<gridSize, interpreter, scene, voxelMesh, meshes, geometry, runs,
                   inbox, outbox, warnings, isExecutingRef, colorSet, terminated>>

CallGenerateVoxelGeometry ==
    /\ posts < MaxUtilCalls
    /\ \E g \in {generateVoxelGeometry(WState)} :
          /\ geometry' = IF g.threw THEN Null ELSE Some(g.buf)
          /\ call' = [fn |-> "generateVoxelGeometry", threw |-> g.threw,
                      discarded |-> FALSE]
    /\ posts' = posts + 1
    /\ UNCHANGED <<gridSize, voxelData, heap, interpreter, scene, voxelMesh, meshes,
                   runs, inbox, outbox, warnings, isExecutingRef, colorSet, terminated>>

UtilUpdateVoxelMesh ==
    /\ posts < MaxUtilCalls
    /\ \E u \in {updateVoxelMesh(WState)} :
          /\ scene' = u.scene
          /\ voxelMesh' = u.voxelMesh
          /\ meshes' = u.meshes
          /\ geometry' = u.geometry
          /\ call' = [fn |-> "updateVoxelMesh", threw |-> u.threw,
                      discarded |-> u.discarded]
    /\ posts' = posts + 1
    /\ UNCHANGED <<gridSize, voxelData, heap, interpreter, runs, inbox, outbox,
                   warnings, isExecutingRef, colorSet, terminated>>

NextUtils ==
    \/ CallResetVoxelData
    \/ CallGenerateVoxelGeometry
    \/ UtilUpdateVoxelMesh

SpecUtils == UtilInit /\ [][NextUtils]_vars

\* Every cell of the gridSize cube is stored, and stored as absent.
AllAbsent(st) ==
    /\ st.voxelData # Null
    /\ \A c \in Cells(st.gridSize) :
          c \in DOMAIN st.voxelData[1].cells /\ st.voxelData[1].cells[c] = Null

(***************************************************************************)
(* C12.  generateVoxelGeometry returns the empty buffer (no vertex, no      *)
(* index) and does not throw when every cell of the grid is absent, and     *)
(* whenever it is called right after resetVoxelData, whatever the state     *)
(* held before the reset.  Under SpecUtils.                                 *)
(***************************************************************************)
C12_AbsentGridEmptyBuffer ==
    [][ ( /\ posts' = posts + 1
          /\ call'.fn = "generateVoxelGeometry"
          /\ (AllAbsent(WState) \/ call.fn = "resetVoxelData") )
        => ( /\ ~call'.threw
             /\ geometry' = Some(EmptyBuffers) ) ]_vars

\* The empty buffer was generated after a reset replaced an array of
\* another size that held a colour.
C12_Witness ==
    /\ call.fn = "generateVoxelGeometry"
    /\ geometry = Some(EmptyBuffers)
    /\ voxelData = Some(2)
    /\ heap[1].n # gridSize
    /\ \E c \in DOMAIN heap[1].cells : heap[1].cells[c] = Some("red")

(***************************************************************************)
(* C14.  resetVoxelData leaves a gridSize x gridSize x gridSize array with  *)
(* every cell absent, whether there was no array, one of another size or    *)
(* one of the right size; and a second reset changes nothing.               *)
(* Under SpecUtils.                                                         *)
(***************************************************************************)
C14_ResetVoxelData ==
    [][ ( /\ posts' = posts + 1
          /\ call'.fn = "resetVoxelData" )
        => ( /\ voxelData' # Null
             /\ heap'[voxelData'[1]].n = gridSize'
             /\ heap'[voxelData'[1]].cells = EmptyGrid(gridSize')
             /\ gridSize' = gridSize
             /\ (call.fn = "resetVoxelData" =>
                    /\ voxelData' = voxelData
                    /\ heap' = heap) ) ]_vars

\* Two resets in a row (no geometry was generated in between), the first
\* of which replaced a larger array.
C14_Witness ==
    /\ call.fn = "resetVoxelData"
    /\ posts = 2
    /\ Len(heap) = 2
    /\ heap[1].n > gridSize
    /\ geometry = Null

(***************************************************************************)
(* C13.  In every state of the worker and for all coordinates,              *)
(* getVoxelColor returns null, without throwing, when a coordinate is       *)
(* outside [0, gridSize) or there is no voxel array; otherwise it returns   *)
(* (it does not throw) the value stored at (x, y, z).  Under Spec.          *)
(***************************************************************************)
C13_GetVoxelColor ==
    \A x \in -1 .. MaxGrid : \A y \in -1 .. MaxGrid : \A z \in -1 .. MaxGrid :
        LET v == getVoxelColor(WState, x, y, z) IN
        IF voxelData = Null \/ <<x, y, z>> \notin Cells(gridSize)
        THEN v = Null
        ELSE /\ v # Thrown
             /\ <<x, y, z>> \in DOMAIN heap[voxelData[1]].cells
                   => v = heap[voxelData[1]].cells[<<x, y, z>>]


(***************************************************************************)
(* C15.  When the worker is initialised and starts a run of a script that   *)
(* parses, after an earlier run made with another grid size, the run        *)
(* evaluates cells: it passes the new size to draw and works on an array    *)
(* that holds every cell 0 <= x, y, z < new size.  Under Spec.              *)
(***************************************************************************)
C15_RunAfterResize ==
    [][ ( /\ Len(runs') = Len(runs) + 1
          /\ interpreter /\ scene # Null /\ voxelData # Null
          /\ Parses(runs'[Len(runs')].code)
          /\ \E q \in DOMAIN runs : runs[q].gridSize # gridSize )
        => LET run == runs'[Len(runs')] IN
           /\ run.pc = "Evaluating"
           /\ run.gridSize = gridSize
           /\ Cells(gridSize) \subseteq DOMAIN heap'[run.voxelData].cells ]_vars


(***************************************************************************)
(* C16.  Every voxel mesh was created when no other voxel geometry was      *)
(* live: the mesh installed before it had been removed and disposed, and    *)
(* the handle cleared, first.  So at most one voxel geometry is undisposed, *)
(* it is the one state.voxelMesh records, and nothing is disposed twice.    *)
(* Under SpecScene.                                                         *)
(***************************************************************************)
C16_DisposeBeforeCreate ==
    /\ \A i \in DOMAIN meshes :
          /\ meshes[i].liveAtCreation = 0
          /\ meshes[i].geometryDisposed <= 1
          /\ meshes[i].materialDisposed = meshes[i].geometryDisposed
          /\ meshes[i].geometryDisposed = 0 => voxelMesh = Some(i)
    /\ LiveGeometries(meshes) <= 1

\* A mesh was replaced: the first is disposed once, the second is live.
C16_Witness ==
    /\ Len(meshes) >= 2
    /\ meshes[1].geometryDisposed = 1
    /\ meshes[1].materialDisposed = 1
    /\ meshes[2].geometryDisposed = 0
    /\ voxelMesh = Some(2)


(***************************************************************************)
(* C17.  A call of updateVoxelMesh with a scene, on a grid for which the    *)
(* mesher produces zero faces, adds no mesh to the scene, disposes the      *)
(* empty geometry and leaves state.voxelMesh null; a mesh installed before  *)
(* the call is removed from the scene and disposed.  Under SpecUtils.       *)
(***************************************************************************)
C17_EmptyGridNoMesh ==
    [][ ( /\ posts' = posts + 1
          /\ call'.fn = "updateVoxelMesh"
          /\ scene # Null
          /\ LET g == generateVoxelGeometry(WState)
             IN  ~g.threw /\ Len(g.buf.indices) = 0 )
        => /\ ~call'.threw
           /\ call'.discarded
           /\ voxelMesh' = Null
           /\ scene' = Some({})
           /\ Len(meshes') = Len(meshes)
           /\ \A i \in DOMAIN meshes' : meshes'[i].geometryDisposed = 1
           /\ geometry' = Some(EmptyBuffers) ]_vars

\* A mesh was installed, the grid was emptied, and the next update removed
\* the mesh and installed nothing.
C17_Witness ==
    /\ call.fn = "updateVoxelMesh"
    /\ call.discarded
    /\ voxelMesh = Null
    /\ scene = Some({})
    /\ Len(meshes) = 1
    /\ meshes[1].geometryDisposed = 1


(***************************************************************************)
(* C18.  A run calls updateVoxelMesh at most once; a run that is still      *)
(* evaluating, or that failed before or at compilation, has not called it,  *)
(* and a successful run has called it once.  The call is made in the step   *)
(* that evaluates the last row and it reads the grid as that step leaves    *)
(* it: when the worker's grid is still the run's, the geometry draws a cell *)
(* of the last row exactly if the run stored a colour there.  The run's     *)
(* closing message is posted after the call, in the same step.  Under       *)
(* SpecWorker.                                                              *)
(***************************************************************************)
\* Some quad of the buffer belongs to cell c.
DrawsCell(buf, n, c) ==
    \E q \in 1 .. QuadCount(buf) :
        LET e == FaceAt(buf, n, q) IN <<e[1], e[2], e[3]>> = c

C18_MeshOncePerRun ==
    [][ \A r \in DOMAIN runs' :
          LET before == IF r \in DOMAIN runs THEN runs[r].meshUpdates ELSE 0
              run == runs'[r]
          IN
          /\ run.meshUpdates \in {before, before + 1}
          /\ run.meshUpdates <= 1
          /\ run.pc = "Evaluating" => run.meshUpdates = 0
          /\ run.pc = "success" => run.meshUpdates = 1
          /\ run.failure \in {"SyntaxError", "not initialized"} => run.meshUpdates = 0
          /\ run.meshUpdates = before + 1 =>
                /\ Parses(run.code)
                /\ RowsDone(run) = run.gridSize * run.gridSize
                /\ outbox' = Append(outbox, IF run.pc = "success"
                                            THEN Success("runPythonCode")
                                            ELSE RunError(run.failure))
                /\ ( /\ scene # Null /\ run.pc = "success"
                      /\ voxelData = Some(run.voxelData) /\ gridSize = run.gridSize )
                      => \A z \in 0 .. run.gridSize - 1 :
                            LET c == <<run.gridSize - 1, run.gridSize - 1, z>> IN
                            Truthy(heap'[run.voxelData].cells[c])
                               <=> DrawsCell(geometry'[1], run.gridSize, c) ]_vars

\* A 2x2x2 run that was suspended and resumed has finished: one mesh update,
\* a mesh installed, the success message last in the outbox.
C18_Witness ==
    \E r \in DOMAIN runs :
        /\ runs[r].pc = "success"
        /\ runs[r].gridSize = 2
        /\ runs[r].meshUpdates = 1
        /\ runs[r].code = "mixed"
        /\ voxelMesh # Null
        /\ outbox # <<>>
        /\ outbox[Len(outbox)] = Success("runPythonCode")


(***************************************************************************)
(* C19.  When generateVoxelGeometry has been called on a grid whose cells   *)
(* are all occupied, vertices were emitted, and on each axis the smallest   *)
(* emitted coordinate is the negation of the largest.  Positions are held   *)
(* in half units, which keeps the comparison exact.  Under SpecUtils.       *)
(***************************************************************************)
\* Every cell of the gridSize cube is stored, and stored as present.
FullyOccupied(st) ==
    /\ st.voxelData # Null
    /\ st.voxelData[1].n = st.gridSize
    /\ \A c \in Cells(st.gridSize) : st.voxelData[1].cells[c] # Null

\* The coordinates emitted on axis a (1 = x, 2 = y, 3 = z).
AxisCoords(buf, a) ==
    {buf.positions[i] : i \in {j \in 1 .. Len(buf.positions) : (j - 1) % 3 = a - 1}}

MinOf(S) == CHOOSE m \in S : \A s \in S : m <= s

MaxOf(S) == CHOOSE m \in S : \A s \in S : m >= s

C19_CentredOnOrigin ==
    ( call.fn = "generateVoxelGeometry" /\ FullyOccupied(WState) )
    => /\ geometry # Null
       /\ \A a \in 1 .. 3 :
             /\ AxisCoords(geometry[1], a) # {}
             /\ MinOf(AxisCoords(geometry[1], a)) = 0 - MaxOf(AxisCoords(geometry[1], a))


(***************************************************************************)
(* C20.  After generateVoxelGeometry has returned, every cell holding a     *)
(* non-empty token has its exposed faces in the buffers, the cells after a  *)
(* token the parser rejects included; the four vertices of a face carry     *)
(* pure green (0, 1, 0) when the parser rejects the cell's token and the    *)
(* parsed colour of the cell's own token otherwise.  Under SpecUtils.       *)
(***************************************************************************)
\* The colours of the four vertices of quad q.
QuadColors(buf, q) ==
    {<<buf.colors[12 * (q - 1) + 3 * k + 1], buf.colors[12 * (q - 1) + 3 * k + 2],
       buf.colors[12 * (q - 1) + 3 * k + 3]>> : k \in 0 .. 3}

C20_DefaultGreenOnParseFailure ==
    ( call.fn = "generateVoxelGeometry" /\ ~call.threw )
    => LET buf == geometry[1]
           cells == heap[voxelData[1]].cells
       IN  /\ \A c \in Cells(gridSize) : \A f \in 1 .. Len(VoxelFaces) :
                 ( /\ Truthy(cells[c])
                   /\ ~Truthy(getVoxelColor(WState, c[1] + VoxelFaces[f].dir[1],
                                            c[2] + VoxelFaces[f].dir[2],
                                            c[3] + VoxelFaces[f].dir[3])) )
                 => <<c[1], c[2], c[3], f>> \in EmittedFaces(buf, gridSize)
           /\ \A q \in 1 .. QuadCount(buf) :
                 LET e == FaceAt(buf, gridSize, q)
                     token == cells[<<e[1], e[2], e[3]>>][1]
                 IN  QuadColors(buf, q) =
                        {IF ColorParses(token) THEN ColorOf(NewColor, token)
                         ELSE <<0, 1, 0>>}


(***************************************************************************)
(* C21.  When the last message of the worker is the success of terminate,   *)
(* state.voxelMesh, state.voxelData and state.scene are null, and every     *)
(* voxel mesh ever installed, the one terminate found included, has had its *)
(* geometry and its material disposed exactly once.  Under SpecScene.       *)
(***************************************************************************)
C21_TerminateReleases ==
    ( outbox # <<>> /\ outbox[Len(outbox)] = Success("terminate") )
    => /\ voxelMesh = Null
       /\ voxelData = Null
       /\ scene = Null
       /\ \A i \in DOMAIN meshes :
             meshes[i].geometryDisposed = 1 /\ meshes[i].materialDisposed = 1

\* terminate found a mesh installed by a run and released it.
C21_Witness ==
    /\ outbox # <<>> /\ outbox[Len(outbox)] = Success("terminate")
    /\ Len(meshes) = 1
    /\ meshes[1].geometryDisposed = 1
    /\ \E r \in DOMAIN runs : runs[r].pc = "success"
    /\ voxelMesh = Null


(***************************************************************************)
(* C22.  Of two runs that have failed, one at compilation and the other     *)
(* for another reason, the closing messages differ in kind, that is in      *)
(* their type and status, not only in their text.  Under Spec.              *)
(***************************************************************************)
\* What a receiver can switch on without reading the text.
Kind(m) == <<m.type, m.status>>

C22_CompileFailureKind ==
    \A r \in DOMAIN runs : \A q \in DOMAIN runs :
        ( /\ runs[r].reply # Null /\ runs[q].reply # Null
          /\ runs[r].failure = "SyntaxError"
          /\ runs[q].failure \in {"TypeError", "not initialized"} )
        => Kind(runs[r].reply[1]) # Kind(runs[q].reply[1])


(***************************************************************************)
(* SpecRows: one run on a grid large enough for the await of every fourth   *)
(* row to matter.  The worker has been initialised with a grid of any size  *)
(* up to MaxRowGrid and the page has posted one runPythonCode message.      *)
(***************************************************************************)
MaxRowGrid == 6

RowsInit ==
    /\ gridSize \in 1 .. MaxRowGrid
    /\ heap = <<NewVoxelArray(gridSize)>>
    /\ voxelData = Some(1)
    /\ interpreter = TRUE
    /\ scene = Some({})
    /\ voxelMesh = Null
    /\ meshes = <<>>
    /\ geometry = Some(EmptyBuffers)
    /\ runs = <<>>
    /\ inbox \in {<<RunMsg(code)>> : code \in Codes}
    /\ outbox = <<Success("init")>>
    /\ warnings = <<>>
    /\ isExecutingRef = TRUE
    /\ posts = 1
    /\ call = NoCall
    \* The scripts of Codes store only strings the parser accepts.
    /\ colorSet = "throws"
    /\ terminated = FALSE

NextRows ==
    \/ WorkerRunPythonCode
    \/ WorkerResume

SpecRows == RowsInit /\ [][NextRows]_vars

\* Row number k (from 1, x outermost) is row (x, y) with this y.
RowY(k, n) == (k - 1) % n

(***************************************************************************)
(* C23.  Each step of a run, from its start or from an await to the next    *)
(* await or to the end of the loops, evaluates whole rows: at an await the  *)
(* cells of the row just finished hold their results and the row after it   *)
(* is still as the reset left it.  The run awaits after row (x, y) exactly  *)
(* when y % 4 = 0, so a step evaluates at most 4 rows, that is at most      *)
(* 4 * gridSize cells.  Under SpecRows.                                     *)
(***************************************************************************)
C23_SuspendsAtRowBoundaries ==
    [][ \A r \in DOMAIN runs' :
          LET run == runs'[r]
              n == run.gridSize
              before == IF r \in DOMAIN runs THEN RowsDone(runs[r]) ELSE 0
              after == RowsDone(run)
              cells == heap'[run.voxelData].cells
          IN  ( Parses(run.code) /\ runs' # runs )
              => /\ after - before <= YieldEvery
                 /\ (after - before) * n <= YieldEvery * n
                 /\ \A k \in before + 1 .. after - 1 : RowY(k, n) % YieldEvery # 0
                 /\ run.pc = "Evaluating" =>
                       /\ after > before
                       /\ RowY(after, n) % YieldEvery = 0
                       /\ \A z \in 0 .. n - 1 :
                             cells[<<run.x, run.y, z>>] =
                                 StoredValue(Draw(run.code, run.x, run.y, z, n))
                       /\ after < n * n =>
                             \A z \in 0 .. n - 1 :
                                 cells[<<after \div n, after % n, z>>] = Null
                 /\ run.pc # "Evaluating" =>
                       \A k \in before + 1 .. after : RowY(k, n) % YieldEvery # 0 ]_vars

\* A run on a grid of at least 5 was suspended after a row with y = 4, four
\* rows after its previous await.
C23_Witness ==
    \E r \in DOMAIN runs :
        /\ runs[r].pc = "Evaluating"
        /\ runs[r].gridSize >= 5
        /\ runs[r].y = 4
        /\ runs[r].code = "mixed"


(***************************************************************************)
(* Vectors read back from the buffers.  Vertices are numbered from 0 as the *)
(* index buffer numbers them; triangle t (from 0) is indices 3t+1 .. 3t+3.  *)
(***************************************************************************)
Vertex(buf, i) ==
    <<buf.positions[3 * i + 1], buf.positions[3 * i + 2], buf.positions[3 * i + 3]>>

VertexNormal(buf, i) ==
    <<buf.normals[3 * i + 1], buf.normals[3 * i + 2], buf.normals[3 * i + 3]>>

Sub(u, v) == <<u[1] - v[1], u[2] - v[2], u[3] - v[3]>>

Cross(u, v) ==
    <<u[2] * v[3] - u[3] * v[2], u[3] * v[1] - u[1] * v[3], u[1] * v[2] - u[2] * v[1]>>

Scaled(k, u) == <<k * u[1], k * u[2], k * u[3]>>

\* The cross product of the edges of triangle t, taken in index order.
TriangleNormal(buf, t) ==
    LET a == Vertex(buf, buf.indices[3 * t + 1])
        b == Vertex(buf, buf.indices[3 * t + 2])
        c == Vertex(buf, buf.indices[3 * t + 3])
    IN  Cross(Sub(b, a), Sub(c, a))

\* The sum of the four corners of quad q.
QuadSum(buf, q) ==
    LET v(k) == Vertex(buf, 4 * (q - 1) + k)
    IN  <<v(0)[1] + v(1)[1] + v(2)[1] + v(3)[1],
          v(0)[2] + v(1)[2] + v(2)[2] + v(3)[2],
          v(0)[3] + v(1)[3] + v(2)[3] + v(3)[3]>>

\* The centre of cell c of an n-grid, in the half units of the positions.
CellCentre(c, n) == <<2 * c[1] + 1 - (n - 1), 2 * c[2] + 1 - (n - 1), 2 * c[3] + 1 - (n - 1)>>

(***************************************************************************)
(* C24.  In the face table the corners of each entry lie on the side of the *)
(* unit cube its dir selects.  In the buffers generateVoxelGeometry returns *)
(* every face has one of the six directions as the normal of its four       *)
(* vertices, its two triangles (0,1,2) and (2,1,3) have that direction as   *)
(* their cross-product normal (a unit square is 2 x 2 in half units, so the *)
(* product is 4 dir), and the face lies on that side of an occupied cell;   *)
(* a single occupied cell gives 6 faces, one for each direction.  Under     *)
(* SpecUtils.                                                               *)
(***************************************************************************)
C24_FacesWindOutward ==
    /\ \A f \in 1 .. Len(VoxelFaces) : \A k \in 1 .. 4 : \A a \in 1 .. 3 :
          /\ VoxelFaces[f].dir[a] = 1 => VoxelFaces[f].corners[k][a] = 1
          /\ VoxelFaces[f].dir[a] = -1 => VoxelFaces[f].corners[k][a] = 0
    /\ ( call.fn = "generateVoxelGeometry" /\ ~call.threw )
       => LET buf == geometry[1]
              cells == heap[voxelData[1]].cells
              occupied == {c \in Cells(gridSize) : Truthy(cells[c])}
          IN  /\ \A q \in 1 .. QuadCount(buf) :
                    LET dir == VertexNormal(buf, 4 * (q - 1)) IN
                    /\ \E f \in 1 .. Len(VoxelFaces) : VoxelFaces[f].dir = dir
                    /\ \A k \in 0 .. 3 : VertexNormal(buf, 4 * (q - 1) + k) = dir
                    /\ TriangleNormal(buf, 2 * (q - 1)) = Scaled(4, dir)
                    /\ TriangleNormal(buf, 2 * (q - 1) + 1) = Scaled(4, dir)
                    /\ \E c \in occupied :
                          QuadSum(buf, q) = Scaled(4, <<CellCentre(c, gridSize)[1] + dir[1],
                                                        CellCentre(c, gridSize)[2] + dir[2],
                                                        CellCentre(c, gridSize)[3] + dir[3]>>)
              /\ Cardinality(occupied) = 1 =>
                    /\ QuadCount(buf) = 6
                    /\ {VertexNormal(buf, 4 * (q - 1)) : q \in 1 .. QuadCount(buf)}
                          = {VoxelFaces[f].dir : f \in 1 .. Len(VoxelFaces)}

\* The mesher has run on a 2x2x2 grid with a single occupied cell.
C24_Witness ==
    /\ call.fn = "generateVoxelGeometry"
    /\ ~call.threw
    /\ gridSize = 2
    /\ Cardinality({c \in Cells(gridSize) : Truthy(heap[voxelData[1]].cells[c])}) = 1
    /\ QuadCount(geometry[1]) = 6


(***************************************************************************)
(* C25.  The step in which a run ends in failure creates no mesh and adds   *)
(* nothing to the scene: the handle is null or what it was.  When the       *)
(* failure is that of interpreter.parse, the scene, the handle and every    *)
(* mesh are exactly what they were before the run, and the only change is   *)
(* to the run's grid, whose cells are all absent.  Under SpecWorker.        *)
(***************************************************************************)
C25_NoPartialMesh ==
    [][ \A r \in DOMAIN runs' :
          ( /\ runs'[r].pc = "failed"
            /\ runs'[r].reply # Null
            /\ r \in DOMAIN runs => runs[r].reply = Null )
          => /\ Len(meshes') = Len(meshes)
             /\ \A i \in DOMAIN meshes : meshes'[i].geometry = meshes[i].geometry
             /\ voxelMesh' # Null => voxelMesh' = voxelMesh
             /\ scene' # Null => (scene # Null /\ scene'[1] \subseteq scene[1])
             /\ runs'[r].failure = "SyntaxError" =>
                   /\ <<scene', voxelMesh', meshes'>> = <<scene, voxelMesh, meshes>>
                   /\ \A h \in DOMAIN heap : h # runs'[r].voxelData => heap'[h] = heap[h]
                   /\ \A c \in Cells(gridSize) :
                         heap'[runs'[r].voxelData].cells[c] = Null ]_vars

\* A run failed to compile while a mesh was installed: the mesh is still in
\* the scene, over a grid that is now empty.
C25_Witness ==
    /\ runs # <<>>
    /\ runs[Len(runs)].failure = "SyntaxError"
    /\ voxelMesh # Null
    /\ scene = Some({voxelMesh[1]})
    /\ meshes[voxelMesh[1]].geometryDisposed = 0
    /\ \A c \in Cells(gridSize) : heap[voxelData[1]].cells[c] = Null


(***************************************************************************)
(* C26.  When no run is suspended and the last message of the worker is the *)
(* success of a run, the scene is in sync with the grid: state.voxelMesh is *)
(* non-null exactly when generateVoxelGeometry yields at least one face for *)
(* the current grid, and then the installed mesh is alone in the scene,     *)
(* undisposed, and holds exactly the buffers generateVoxelGeometry yields.  *)
(* After a terminate there is no grid, and no mesh.  Runs that overlapped   *)
(* need not be excluded.  Under SpecWorker.                                 *)
(***************************************************************************)
InSync ==
    IF voxelData = Null \/ scene = Null
    THEN voxelMesh = Null
    ELSE LET g == CHOOSE u \in {generateVoxelGeometry(WState)} : TRUE IN
         /\ ~g.threw
         /\ voxelMesh # Null <=> Len(g.buf.indices) > 0
         /\ voxelMesh # Null =>
               /\ scene = Some({voxelMesh[1]})
               /\ meshes[voxelMesh[1]].geometryDisposed = 0
               /\ meshes[voxelMesh[1]].geometry = g.buf
         /\ voxelMesh = Null => scene = Some({})

C26_SceneInSync ==
    ( /\ \A r \in DOMAIN runs : runs[r].pc # "Evaluating"
      /\ outbox # <<>>
      /\ outbox[Len(outbox)] = Success("runPythonCode") )
    => InSync

\* A single run has succeeded on a 2x2x2 grid and left a mesh installed.
C26_Witness ==
    /\ Len(runs) = 1
    /\ runs[1].pc = "success"
    /\ runs[1].gridSize = 2
    /\ outbox[Len(outbox)] = Success("runPythonCode")
    /\ voxelMesh # Null
    /\ gridSize = 2


(***************************************************************************)
(* SpecWorkerFair: SpecWorker with the timers of the awaits firing.  A      *)
(* suspended run waits on setTimeout(resolve, 0), and no handler of the     *)
(* worker cancels a timer or closes the worker, so a run that can resume    *)
(* does resume.                                                             *)
(***************************************************************************)
ResumeEnabled == \E r \in DOMAIN runs : runs[r].pc = "Evaluating"

\* The step of WorkerResume, told by its effect: the continuation of a
\* suspended run is the only code that changes the run.
Resumed == \E r \in DOMAIN runs : runs[r].pc = "Evaluating" /\ runs'[r] # runs[r]

SpecWorkerFair ==
    SpecWorker /\ ([]<>(~ResumeEnabled) \/ []<><<Resumed>>_vars)

\* The messages that end a run.
IsTerminal(m) ==
    \/ m = Success("runPythonCode")
    \/ m \in {RunError(why) : why \in {"SyntaxError", "TypeError", "not initialized"}}

\* The runs that post their closing message in this step.
Ending == {r \in DOMAIN runs' :
              /\ runs'[r].reply # Null
              /\ r \in DOMAIN runs => runs[r].reply = Null}

(***************************************************************************)
(* C27.  Every run is answered once: the step in which a run ends posts     *)
(* one message, the success of runPythonCode or an error, and no other step *)
(* posts such a message; a run that has been answered does nothing more;    *)
(* and every run that has started is answered in the end (answers are kept, *)
(* so it is enough that all runs are answered again and again).  Warnings   *)
(* are kept apart from these messages.  Under SpecWorkerFair.               *)
(***************************************************************************)
C27_OneTerminalMessage ==
    /\ [][ /\ Cardinality(Ending) <= 1
           /\ \A r \in Ending :
                 /\ outbox' = Append(outbox, runs'[r].reply[1])
                 /\ IsTerminal(runs'[r].reply[1])
                 /\ runs'[r].reply[1] = Success("runPythonCode") <=> runs'[r].pc = "success"
           /\ Ending = {} =>
                 /\ Len(outbox') <= Len(outbox) + 1
                 /\ \A i \in Len(outbox) + 1 .. Len(outbox') : ~IsTerminal(outbox'[i])
           /\ \A r \in DOMAIN runs : runs[r].reply # Null => runs'[r] = runs[r]
           /\ \A r \in DOMAIN runs' : runs'[r].pc = "Evaluating" => runs'[r].reply = Null ]_vars
    /\ []<>(\A r \in DOMAIN runs : runs[r].reply # Null)

\* Two runs have been answered, one with success after it was resumed and
\* one with an error.
C27_Witness ==
    /\ Len(runs) = 2
    /\ \E r \in DOMAIN runs : runs[r].reply = Some(Success("runPythonCode"))
    /\ \E r \in DOMAIN runs : runs[r].reply # Null /\ runs[r].reply[1].type = "error"


(***************************************************************************)
(* C28.  Once terminate has completed, no voxel mesh is created or added    *)
(* to a scene again: no later step lengthens the list of meshes ever        *)
(* created or puts a mesh into a scene.  Under Spec this fails: terminate   *)
(* clears the state but leaves the worker running, a later init builds a    *)
(* new scene, and the next run installs a mesh in it.                       *)
(***************************************************************************)
C28_NoMeshAfterTerminate ==
    [][ terminated =>
          /\ Len(meshes') = Len(meshes)
          /\ scene' # Null => scene'[1] \subseteq (IF scene = Null THEN {} ELSE scene[1]) ]_vars

\* messageHandler ends the execution in this step: it clears isExecutingRef
\* and calls onRunComplete.
RunCompleted == isExecutingRef /\ ~isExecutingRef'

(***************************************************************************)
(* C29.  The Canvas ends an execution (clears isExecutingRef and calls      *)
(* onRunComplete) only for the closing message of the run it started: when  *)
(* it does, the run message it posted last has been handled by the worker   *)
(* and the message it is receiving is the one that closed that run.  Under  *)
(* Spec this fails: messageHandler takes any message of type 'error' for    *)
(* the end of the run, so the error of a failed init ends the execution     *)
(* while its run is still waiting or evaluating.                            *)
(***************************************************************************)
C29_CompletesOnOwnReply ==
    [][ RunCompleted =>
          /\ \A i \in DOMAIN inbox : inbox[i].type # "runPythonCode"
          /\ runs # <<>>
          /\ runs[Len(runs)].reply = Some(Head(outbox)) ]_vars


\* The state with the same grid size and the same cells occupied, each of
\* them holding the one token "#00ff00".
OneColour(st) ==
    [st EXCEPT !.voxelData =
        Some([st.voxelData[1] EXCEPT !.cells =
                 [c \in DOMAIN st.voxelData[1].cells |->
                     IF st.voxelData[1].cells[c] = Null THEN Null ELSE Some("#00ff00")]])]

\* The buffers that do not hold colours.
Shape(buf) == [positions |-> buf.positions, normals |-> buf.normals, indices |-> buf.indices]

(***************************************************************************)
(* C30.  The positions, normals and indices generateVoxelGeometry returns   *)
(* for a grid are those it returns for the grid of the same size with the   *)
(* same cells occupied and one colour in all of them; so any two grids of   *)
(* one size with the same occupied cells get the same positions, normals    *)
(* and indices in the same order, whatever tokens they hold and whether the *)
(* tokens parse.  Under SpecUtils this fails for a cell that holds the      *)
(* empty string: the mesher tests the token's truthiness and emits nothing  *)
(* for it.                                                                  *)
(***************************************************************************)
C30_GeometryIgnoresColour ==
    ( call.fn = "generateVoxelGeometry" /\ ~call.threw )
    => Shape(geometry[1]) = Shape(generateVoxelGeometry(OneColour(WState)).buf)

====
